---- MODULE Spec2Model ----
(***************************************************************************)
(* A model of cosmic/sample/initialcmctable.py: the InitialCMCTable class   *)
(* (a pandas DataFrame carrying cluster metadata as attributes), its unit   *)
(* scaling (ScaleToNBodyUnits), black-hole injection (AddBlackHoles) and    *)
(* the serializer pair write / read.                                        *)
(*                                                                          *)
(* Numbers.  The float columns are modelled by exact values:                *)
(*   - masses, radii and the scalar attributes are rationals <<n, d>> in    *)
(*     lowest terms with d > 0; the tuple <<0, 0>> stands for Python's None *)
(*     (an attribute that was never set);                                   *)
(*   - the columns vr and vt of a table are rationals in a unit the table *)
(*     carries as its square (vunit2, 1 at construction): a velocity is     *)
(*     vr * sqrt(vunit2).  The only irrational operation of the code, the   *)
(*     multiplication of both columns by 1 / sqrt(4 * KE), divides vunit2   *)
(*     by 4 * KE and is exact in this form.  On disk a velocity is the      *)
(*     record [sg, sq] of its sign and its square;                          *)
(*   - Reff, Reff1, Reff2 and a are only ever multiplied by the two unit    *)
(*     constants of the code, so they are monomials                         *)
(*     c * PARSEC_PER_RSUN^pc * 2.122e-6^gm, the record [c, pc, gm].        *)
(* Rounding of the double arithmetic is not modelled.                       *)
(***************************************************************************)
EXTENDS Integers, Sequences, FiniteSets, TLC

\* ------------------------------------------------------------- rationals

RECURSIVE GCD(_, _)
GCD(a, b) == IF b = 0 THEN a ELSE GCD(b, a % b)

Abs(x) == IF x < 0 THEN -x ELSE x

\* The rational n/d in lowest terms with a positive denominator.
Norm(n, d) ==
    LET g == GCD(Abs(n), Abs(d))
        s == IF d < 0 THEN -1 ELSE 1
    IN  <<s * (n \div g), s * (d \div g)>>

Q(n, d) == Norm(n, d)
Zero == <<0, 1>>
One == <<1, 1>>

RAdd(a, b) ==
    LET g == GCD(a[2], b[2])
    IN  Norm(a[1] * (b[2] \div g) + b[1] * (a[2] \div g), (a[2] \div g) * b[2])
RNeg(a) == <<-a[1], a[2]>>
RSub(a, b) == RAdd(a, RNeg(b))
RMul(a, b) ==
    LET g1 == GCD(Abs(a[1]), b[2])
        g2 == GCD(Abs(b[1]), a[2])
    IN  Norm((a[1] \div g1) * (b[1] \div g2), (a[2] \div g2) * (b[2] \div g1))
RInv(a) == Norm(a[2], a[1])
RDiv(a, b) == RMul(a, RInv(b))
RLt(a, b) == a[1] * b[2] < b[1] * a[2]
RLe(a, b) == a[1] * b[2] <= b[1] * a[2]
RPos(a) == a[1] > 0

\* Python's None, for the attributes that start unset.
None == <<0, 0>>

\* ------------------------------------------------------------ velocities

RAbs(a) == <<Abs(a[1]), a[2]>>
RMin2(a, b) == IF RLt(b, a) THEN b ELSE a
Sign(n) == IF n < 0 THEN -1 ELSE IF n > 0 THEN 1 ELSE 0

\* The float c * sqrt(unit2) as its sign and its square.
VelValue(c, unit2) == [sg |-> Sign(c[1]), sq |-> RMul(RMul(c, c), unit2)]

\* ------------------------------------------- lengths in stellar radii

\* c * PARSEC_PER_RSUN^pc * 2.122e-6^gm
Len0 == [c |-> Zero, pc |-> 0, gm |-> 0]
Rsun(c) == [c |-> c, pc |-> 0, gm |-> 0]

\* ------------------------------------------------------------- sequences

RECURSIVE SumSeq(_)
SumSeq(s) == IF s = <<>> THEN Zero ELSE RAdd(s[1], SumSeq(Tail(s)))

\* numpy.cumsum
CumSum(s) == [i \in 1..Len(s) |-> SumSeq(SubSeq(s, 1, i))]

\* a[::-1]
Reverse(s) == [i \in 1..Len(s) |-> s[Len(s) + 1 - i]]

Col(rows, c) == [i \in 1..Len(rows) |-> rows[i][c]]

\* --------------------------------------------------------------- tables

\* INITIAL_CONDITIONS_COLUMNS_CMC_SINGLES; lbl is the row's index label.
SinglesRow(lbl, id, k, m, Reff, r, vr, vt, binind) ==
    [lbl |-> lbl, id |-> id, k |-> k, m |-> m, Reff |-> Reff, r |-> r,
     vr |-> vr, vt |-> vt, binind |-> binind]

\* INITIAL_CONDITIONS_COLUMNS_CMC_BINARIES; lbl is the row's index label.
BinariesRow(lbl, index, id1, k1, m1, Reff1, id2, k2, m2, Reff2, a, e) ==
    [lbl |-> lbl, index |-> index, id1 |-> id1, k1 |-> k1, m1 |-> m1, Reff1 |-> Reff1,
     id2 |-> id2, k2 |-> k2, m2 |-> m2, Reff2 |-> Reff2, a |-> a, e |-> e]

\* A table as its constructor leaves it: the rows, and the class attributes of
\* InitialCMCTable at their defaults.
InitialCMCTable(rows) ==
    [rows |-> rows,
     scaled_to_nbody_units |-> FALSE,
     metallicity |-> None,
     mass_of_cluster |-> None,
     virial_radius |-> None,
     tidal_radius |-> None,
     central_bh |-> Zero,
     scale_with_central_bh |-> FALSE,
     vunit2 |-> One]

\* self.central_bh /= Mtotal
ScaleCentralBHMass(self, Mtotal) ==
    [self EXCEPT !.central_bh = RDiv(self.central_bh, Mtotal)]

\* ------------------------------------------------------ ScaleToNBodyUnits

\* KE = 0.5 * np.sum(mass * (vr ** 2 + vt ** 2))
KineticEnergy(rows, vunit2) ==
    RMul(Q(1, 2),
         SumSeq([i \in 1..Len(rows) |->
                    RMul(rows[i].m,
                         RMul(vunit2, RAdd(RMul(rows[i].vr, rows[i].vr),
                                           RMul(rows[i].vt, rows[i].vt))))]))

\* 1.0 / radius_p1, radius_p1 = np.append(radius[1:], [1e100]).  The last
\* entry is 1e-100, which a double absorbs when it is subtracted from
\* 1.0 / radius (any radius below 1e84): it is the outer boundary at infinity.
InvRadiusP1(rows) ==
    [i \in 1..Len(rows) |-> IF i < Len(rows) THEN RInv(rows[i + 1].r) ELSE Zero]

\* PE = 0.5 * np.sum(mass[::-1]
\*          * np.cumsum((cumul_mass * (1.0 / radius - 1.0 / radius_p1))[::-1]))
ShellPotential(rows) ==
    LET mass == Col(rows, "m")
        cumul_mass == CumSum(mass)
        inv_p1 == InvRadiusP1(rows)
        shell == [i \in 1..Len(rows) |->
                    RMul(cumul_mass[i], RSub(RInv(rows[i].r), inv_p1[i]))]
        inner == CumSum(Reverse(shell))
        rmass == Reverse(mass)
    IN  RMul(Q(1, 2), SumSeq([i \in 1..Len(rows) |-> RMul(rmass[i], inner[i])]))

\* np.sum(Singles.central_bh * mass / radius)
CentralBHPotential(rows, central_bh) ==
    SumSeq([i \in 1..Len(rows) |-> RDiv(RMul(central_bh, rows[i].m), rows[i].r)])

PotentialEnergy(rows, central_bh, scale_with_central_bh) ==
    IF scale_with_central_bh
    THEN RAdd(ShellPotential(rows), CentralBHPotential(rows, central_bh))
    ELSE ShellPotential(rows)

\* rfac = 2 * PE
Rfac(PE) == RMul(Q(2, 1), PE)
\* The slip vfac = 1.0 / np.sqrt(2 * KE), as its square.
VfacSquareOfTwoKE(KE) == RInv(RMul(Q(2, 1), KE))

\* vfac = 1.0 / np.sqrt(4 * KE), as its square
VfacSquare(KE) == RInv(RMul(Q(4, 1), KE))

\* x *= DistConv, DistConv = PARSEC_PER_RSUN / virial_radius
TimesDistConv(x, virial_radius) ==
    [c |-> RDiv(x.c, virial_radius), pc |-> x.pc + 1, gm |-> x.gm]

\* Lines 104-111: the masses in units of M_total, the central black hole too.
NormalizeMasses(S, B, M_total) ==
    [S |-> ScaleCentralBHMass(
               [S EXCEPT !.rows = [i \in 1..Len(S.rows) |->
                                     [S.rows[i] EXCEPT !.m = RDiv(@, M_total)]]],
               M_total),
     B |-> [B EXCEPT !.rows = [i \in 1..Len(B.rows) |->
                                 [B.rows[i] EXCEPT !.m1 = RDiv(@, M_total),
                                                   !.m2 = RDiv(@, M_total)]]]]

\* Lines 136-143: r times rfac, vr and vt times vfac.
ScaleOrbits(S, KE, PE) ==
    [S EXCEPT !.rows = [i \in 1..Len(S.rows) |-> [S.rows[i] EXCEPT !.r = RMul(@, Rfac(PE))]],
              !.vunit2 = RMul(@, VfacSquare(KE))]

\* Lines 103-143: the masses, the central black hole, r, vr and vt.
ScaleMassesAndOrbits(S, B, scale_with_central_bh) ==
    LET Orbits(t) ==
            [S |-> ScaleOrbits(t.S, KineticEnergy(t.S.rows, t.S.vunit2),
                               PotentialEnergy(t.S.rows, t.S.central_bh,
                                               scale_with_central_bh)),
             B |-> t.B]
    IN  Orbits(NormalizeMasses(S, B, SumSeq(Col(S.rows, "m"))))

\* Lines 145-155: Reff, a, Reff1, Reff2 into code units, and the flags.
ScaleStellarRadii(S, B, virial_radius) ==
    [S |-> [S EXCEPT !.rows = [i \in 1..Len(S.rows) |->
                                [S.rows[i] EXCEPT !.Reff = TimesDistConv(@, virial_radius)]],
                     !.scaled_to_nbody_units = TRUE],
     B |-> [B EXCEPT !.rows = [i \in 1..Len(B.rows) |->
                                [B.rows[i] EXCEPT !.a = TimesDistConv(@, virial_radius),
                                                  !.Reff1 = TimesDistConv(@, virial_radius),
                                                  !.Reff2 = TimesDistConv(@, virial_radius)]],
                     !.scaled_to_nbody_units = TRUE]]

\* ScaleToNBodyUnits(Singles, Binaries, virial_radius, central_bh,
\* scale_with_central_bh): the tables after the call and the exception it
\* ends in.  The central_bh parameter is never read by the body.  With
\* virial_radius None the division at line 147 raises TypeError, after the
\* masses and orbits have been rescaled in place.
ScaleToNBodyUnits(S, B, virial_radius, central_bh, scale_with_central_bh) ==
    LET Raised(t, e, m) == [S |-> t.S, B |-> t.B, exc |-> e, msg |-> m]
        Radii(t) ==
            IF virial_radius = None
            THEN Raised(t, "TypeError", "unsupported operand type(s) for /")
            ELSE Raised(ScaleStellarRadii(t.S, t.B, virial_radius), "none", "")
    IN  Radii(ScaleMassesAndOrbits(S, B, scale_with_central_bh))

\* ---------------------------------------------------------- AddBlackHoles

\* The masses / radii argument of a call: a Python number, a list of numbers
\* (text: one element is a non-numeric string), a non-numeric string, or None.
Number(v) == [kind |-> "number", vals |-> <<v>>, text |-> FALSE]
List(vals) == [kind |-> "list", vals |-> vals, text |-> FALSE]
TextList(vals) == [kind |-> "list", vals |-> vals, text |-> TRUE]
Text == [kind |-> "str", vals |-> <<>>, text |-> TRUE]
NoneArg == [kind |-> "None", vals |-> <<>>, text |-> FALSE]

AnyNonPositive(vals) == \E i \in 1..Len(vals) : ~RPos(vals[i])

\* Lines 478-489 and 491-502: the argument as a float array, or the
\* exception.  np.array(x, dtype=float) raises ValueError on a string that
\* is no number (the except clause catches AttributeError only), and makes
\* the 0-d array nan of None; nan <= 0 is False.
AsFloatArray(x, scalar_msg, array_msg) ==
    IF x.kind = "number"
    THEN IF ~RPos(x.vals[1])
         THEN [exc |-> "ValueError", msg |-> scalar_msg, vals |-> <<>>, sized |-> TRUE]
         ELSE [exc |-> "none", msg |-> "", vals |-> x.vals, sized |-> TRUE]
    ELSE IF x.text
         THEN [exc |-> "ValueError", msg |-> "could not convert string to float",
               vals |-> <<>>, sized |-> TRUE]
    ELSE IF x.kind = "None"
         THEN [exc |-> "none", msg |-> "", vals |-> <<>>, sized |-> FALSE]
    ELSE IF AnyNonPositive(x.vals)
         THEN [exc |-> "ValueError", msg |-> array_msg, vals |-> <<>>, sized |-> TRUE]
         ELSE [exc |-> "none", msg |-> "", vals |-> x.vals, sized |-> TRUE]

\* Series.max() of a column without rows.
NaN == -1

\* Series.max()
SeriesMax(col) ==
    IF col = <<>> THEN NaN
    ELSE CHOOSE x \in {col[i] : i \in 1..Len(col)} : \A i \in 1..Len(col) : col[i] <= x

\* Python's max(a, b, c): the first argument stays unless a later one compares
\* greater, and every comparison with nan is False.
PyGreater(x, y) == x # NaN /\ y # NaN /\ x > y
PyMax3(a, b, c) ==
    LET ab == IF PyGreater(b, a) THEN b ELSE a
    IN  IF PyGreater(c, ab) THEN c ELSE ab

\* The slip that looks at Singles alone: Singles["id"].max() + 1.
StartingIdFromSingles(S, B) == SeriesMax(Col(S.rows, "id")) + 1

\* starting_id, line 514
StartingId(S, B) ==
    PyMax3(SeriesMax(Col(S.rows, "id")), SeriesMax(Col(B.rows, "id1")),
           SeriesMax(Col(B.rows, "id2"))) + 1

\* Series.min()
SeriesMin(col) ==
    CHOOSE x \in {col[i] : i \in 1..Len(col)} : \A i \in 1..Len(col) : RLe(x, col[i])

\* min_velocity, line 521, in the unit of the velocity columns
MinVelocity(S) ==
    RMin2(RAbs(SeriesMin(Col(S.rows, "vr"))), RAbs(SeriesMin(Col(S.rows, "vt"))))

\* stellar type of a black hole, line 516
BH_KSTAR == 14

\* 2 * masses * 2.122e-6, line 518
SchwarzschildReff(mass) == [c |-> RMul(Q(2, 1), mass), pc |-> 0, gm |-> 1]

\* singles_bh, lines 510-523: row j (from 1) of the black holes' frame.
SinglesBH(S, B, masses, radii) ==
    LET Rows(start_index, starting_id, v) ==
            [j \in 1..Len(masses) |->
                SinglesRow(start_index + j - 1, starting_id + j - 1, BH_KSTAR, masses[j],
                           SchwarzschildReff(masses[j]), radii[j], v, v, 0)]
    IN  Rows(Len(S.rows), StartingId(S, B), RMul(Q(1, 100), MinVelocity(S)))

\* Singles.loc[i] = row: the rows labelled i are overwritten; a new label is
\* appended.
SetLoc(rows, row) ==
    IF \E i \in 1..Len(rows) : rows[i].lbl = row.lbl
    THEN [i \in 1..Len(rows) |-> IF rows[i].lbl = row.lbl THEN row ELSE rows[i]]
    ELSE Append(rows, row)

\* for i, row in singles_bh.iterrows(): Singles.loc[i] = row
RECURSIVE SetLocAll(_, _)
SetLocAll(rows, new) ==
    IF new = <<>> THEN rows ELSE SetLocAll(SetLoc(rows, new[1]), Tail(new))

\* One row put into rows already sorted by r, after the rows of equal r.
RECURSIVE InsertByR(_, _)
InsertByR(sorted, row) ==
    IF sorted = <<>> THEN <<row>>
    ELSE IF RLt(row.r, sorted[1].r) THEN <<row>> \o sorted
    ELSE <<sorted[1]>> \o InsertByR(Tail(sorted), row)

\* The slip of a sort that is not in place: the rows stay as appended.
LeftAsAppended(rows) == rows

\* Singles.sort_values(by='r', ascending=True, inplace=True).  numpy sorts
\* the short arrays of these bounds by insertion, which keeps the order of
\* equal radii.
RECURSIVE SortValuesByR(_)
SortValuesByR(rows) ==
    IF rows = <<>> THEN <<>>
    ELSE InsertByR(SortValuesByR(SubSeq(rows, 1, Len(rows) - 1)), rows[Len(rows)])

\* Singles.mass_of_cluster += np.sum(masses); None + float raises TypeError.
AddToMassOfCluster(S, masses) ==
    IF S.mass_of_cluster = None
    THEN [S |-> S, exc |-> "TypeError", msg |-> "unsupported operand type(s) for +=",
          completed |-> FALSE]
    ELSE [S |-> [S EXCEPT !.mass_of_cluster = RAdd(@, SumSeq(masses))],
          exc |-> "none", msg |-> "", completed |-> TRUE]

\* AddBlackHoles(Singles, Binaries, masses, radii): Singles after the call
\* and the exception it ends in.
AddBlackHoles(S, B, masses, radii) ==
    LET Fail(e, m) == [S |-> S, exc |-> e, msg |-> m, completed |-> FALSE]
        Checked(ms, rs) ==
            IF ms.exc # "none" THEN Fail(ms.exc, ms.msg)
            ELSE IF rs.exc # "none" THEN Fail(rs.exc, rs.msg)
            ELSE IF ~ms.sized \/ ~rs.sized
                 THEN Fail("TypeError", "len() of unsized object")
            ELSE IF Len(ms.vals) # Len(rs.vals)
                 THEN Fail("ValueError", "masses and radii must be the same length")
            ELSE AddToMassOfCluster(
                     [S EXCEPT !.rows = SortValuesByR(
                          SetLocAll(S.rows, SinglesBH(S, B, ms.vals, rs.vals)))],
                     ms.vals)
    IN  Checked(AsFloatArray(masses, "Mass must be greater than 0",
                             "Masses must be greater than 0"),
                AsFloatArray(radii, "Radius must be greater than 0",
                             "Radii must be greater than 0"))

\* ------------------------------------------------------------ write, read

\* A filename, character by character.
Contains(s, sub) ==
    \E i \in 1..(Len(s) - Len(sub) + 1) : SubSeq(s, i, i + Len(sub) - 1) = sub
EndsWith(s, sub) ==
    Len(s) >= Len(sub) /\ SubSeq(s, Len(s) - Len(sub) + 1, Len(s)) = sub

ExtHdf5 == <<".", "h", "d", "f", "5">>
ExtH5 == <<".", "h", "5">>
ExtFits == <<".", "f", "i", "t", "s">>
ExtCsv == <<".", "c", "s", "v">>

\* Lines 285-294 of write and 410-419 of read.
FileKind(filename) ==
    IF Contains(filename, ExtHdf5) \/ Contains(filename, ExtH5) THEN "hdf5"
    ELSE IF Contains(filename, ExtFits) THEN "fits"
    ELSE "unrecognized"

ExtensionError == "File extension not recognized, valid file types are fits and hdf5"

\* **kwargs of write
NoKwargs ==
    [has |-> {}, virial_radius |-> None, tidal_radius |-> None, metallicity |-> None,
     central_bh |-> Zero, scale_with_central_bh |-> FALSE]
\* kwargs.pop(name, default)
Pop(kwargs, name, default) == IF name \in kwargs.has THEN kwargs[name] ELSE default

\* Lines 302-319: the scaling write does, or the refusal of a scaled table
\* whose mass is unknown.  ran: ScaleToNBodyUnits was called.
WriteScaling(S, B, virial_radius, central_bh, scale_with_central_bh) ==
    LET Ran(r) == [S |-> r.S, B |-> r.B, exc |-> r.exc, msg |-> r.msg, ran |-> TRUE]
    IN  IF ~S.scaled_to_nbody_units
        THEN Ran(ScaleToNBodyUnits(
                     IF S.mass_of_cluster = None
                     THEN [S EXCEPT !.mass_of_cluster =
                                        RAdd(SumSeq(Col(S.rows, "m")), central_bh)]
                     ELSE S,
                     B, virial_radius, central_bh, scale_with_central_bh))
        ELSE IF S.mass_of_cluster = None
        THEN [S |-> S, B |-> B, exc |-> "ValueError",
              msg |-> "you cannot feed in Singles and Binaries which have already been scaled",
              ran |-> FALSE]
        ELSE [S |-> S, B |-> B, exc |-> "none", msg |-> "", ran |-> FALSE]

\* The value of column r on disk: a float of the table, or one of the two
\* sentinel literals of lines 335 and 336.
Float(q) == [lit |-> "", q |-> q]
DBL_MIN == [lit |-> "2.2250738585072014e-308", q |-> Zero]
OUTER == [lit |-> "1e40", q |-> Zero]

\* A Singles row as a row of plain floats.
PlainSinglesRow(row, vunit2) ==
    [row EXCEPT !.r = Float(@), !.vr = VelValue(@, vunit2), !.vt = VelValue(@, vunit2)]

\* np.zeros((1, Singles.shape[1])), index=[0]
ZeroSinglesRow ==
    [lbl |-> 0, id |-> 0, k |-> 0, m |-> Zero, Reff |-> Len0, r |-> Float(Zero),
     vr |-> VelValue(Zero, One), vt |-> VelValue(Zero, One), binind |-> 0]
\* np.zeros((1, Binaries.shape[1])), index=[0]
ZeroBinariesRow ==
    BinariesRow(0, 0, 0, 0, Zero, Len0, 0, 0, Zero, Len0, Len0, Zero)

\* singles, lines 327-337
PaddedSingles(S) ==
    LET Sentinels(all) ==
            [all EXCEPT ![Len(all)].r = OUTER, ![1].r = DBL_MIN, ![1].m = S.central_bh]
    IN  Sentinels(<<ZeroSinglesRow>>
                  \o [i \in 1..Len(S.rows) |-> PlainSinglesRow(S.rows[i], S.vunit2)]
                  \o <<ZeroSinglesRow>>)

\* binaries, lines 340-343
PaddedBinaries(B) == <<ZeroBinariesRow>> \o B.rows

NoAttrs ==
    [keys |-> {}, NOBJ |-> 0, NBINARY |-> 0, MCLUS |-> None, RVIR |-> None,
     RTID |-> None, Z |-> None]
NoFile ==
    [exists |-> FALSE, kind |-> "none", singles |-> <<>>, binaries |-> <<>>,
     attrs |-> NoAttrs]

\* Lines 345-359.  to_hdf writes the two tables, then the attributes are set
\* one by one; h5py raises TypeError on a value of None and the file keeps
\* what was set before it.
SaveHdf5(singles, binaries, S, virial_radius, tidal_radius, metallicity) ==
    LET base == [keys |-> {"EXTNAME", "NOBJ", "NBINARY", "MCLUS"},
                 NOBJ |-> Len(singles) - 2, NBINARY |-> Len(binaries) - 1,
                 MCLUS |-> S.mass_of_cluster, RVIR |-> None, RTID |-> None, Z |-> None]
        File(a) == [exists |-> TRUE, kind |-> "hdf5", singles |-> singles,
                    binaries |-> binaries, attrs |-> a]
        NoHdf5Type == "Object dtype dtype('O') has no native HDF5 equivalent"
    IN  IF virial_radius = None
        THEN [file |-> File(base), exc |-> "TypeError", msg |-> NoHdf5Type]
        ELSE IF tidal_radius = None
        THEN [file |-> File([base EXCEPT !.keys = @ \cup {"RVIR"}, !.RVIR = virial_radius]),
              exc |-> "TypeError", msg |-> NoHdf5Type]
        ELSE [file |-> File([base EXCEPT !.keys = @ \cup {"RVIR", "RTID", "Z"},
                                         !.RVIR = virial_radius, !.RTID = tidal_radius,
                                         !.Z = metallicity]),
              exc |-> "none", msg |-> ""]

\* Lines 361-389.  A header card takes None as an undefined value.
SaveFits(singles, binaries, S, virial_radius, tidal_radius, metallicity) ==
    [file |-> [exists |-> TRUE, kind |-> "fits", singles |-> singles,
               binaries |-> binaries,
               attrs |-> [keys |-> {"EXTNAME", "NOBJ", "NBINARY", "MCLUS", "RVIR", "RTID", "Z"},
                          NOBJ |-> Len(singles) - 2, NBINARY |-> Len(binaries) - 1,
                          MCLUS |-> S.mass_of_cluster, RVIR |-> virial_radius,
                          RTID |-> tidal_radius, Z |-> metallicity]],
     exc |-> "none", msg |-> ""]

MetallicityError == "The user has not supplied a metallicity for the cluster"

\* Lines 345-389: the file of the kind the filename selects.
SaveFile(kind, singles, binaries, S, virial_radius, tidal_radius, metallicity) ==
    IF kind = "hdf5"
    THEN SaveHdf5(singles, binaries, S, virial_radius, tidal_radius, metallicity)
    ELSE SaveFits(singles, binaries, S, virial_radius, tidal_radius, metallicity)

\* write(Singles, Binaries, filename, **kwargs): the tables and the file
\* named filename after the call, the exception it ends in, and whether it
\* called ScaleToNBodyUnits (ran).  file is the file of that name before the
\* call.
Write(S, B, file, filename, kwargs) ==
    LET Raise(S1, B1, e, m, ran) ==
            [S |-> S1, B |-> B1, file |-> file, exc |-> e, msg |-> m, ran |-> ran]
        Saved(sc, saved) ==
            [S |-> sc.S, B |-> sc.B, file |-> saved.file, exc |-> saved.exc,
             msg |-> saved.msg, ran |-> sc.ran]
        Body(kind, virial_radius, tidal_radius, metallicity, sc) ==
            IF sc.exc # "none" THEN Raise(sc.S, sc.B, sc.exc, sc.msg, sc.ran)
            ELSE IF sc.S.metallicity = None
            THEN Raise(sc.S, sc.B, "ValueError", MetallicityError, sc.ran)
            ELSE Saved(sc, SaveFile(kind, PaddedSingles(sc.S), PaddedBinaries(sc.B), sc.S,
                                    virial_radius, tidal_radius, metallicity))
        Resolved(kind, virial_radius, tidal_radius, metallicity, central_bh,
                 scale_with_central_bh) ==
            IF kind = "unrecognized" THEN Raise(S, B, "ValueError", ExtensionError, FALSE)
            ELSE Body(kind, virial_radius, tidal_radius, metallicity,
                      WriteScaling(S, B, virial_radius, central_bh, scale_with_central_bh))
    IN  Resolved(FileKind(filename),
                 Pop(kwargs, "virial_radius", S.virial_radius),
                 Pop(kwargs, "tidal_radius", S.tidal_radius),
                 Pop(kwargs, "metallicity", S.metallicity),
                 Pop(kwargs, "central_bh", S.central_bh),
                 Pop(kwargs, "scale_with_central_bh", S.scale_with_central_bh))

\* The attributes an InitialCMCTable has from its class.
ClassAttrs ==
    [scaled_to_nbody_units |-> FALSE, metallicity |-> None, mass_of_cluster |-> None,
     virial_radius |-> None, tidal_radius |-> None, central_bh |-> Zero,
     scale_with_central_bh |-> FALSE]
\* A plain pandas.DataFrame has none of them.
NoClassAttrs == [x \in {} |-> None]

\* Table.read(filename, hdu).to_pandas(): the rows under a fresh RangeIndex.
ResetIndex(rows) == [i \in 1..Len(rows) |-> [rows[i] EXCEPT !.lbl = i - 1]]

NothingRead ==
    [Singles |-> [cls |-> "", rows |-> <<>>, attrs |-> NoClassAttrs],
     Binaries |-> [cls |-> "", rows |-> <<>>, attrs |-> NoClassAttrs]]

\* read(filename): the two tables returned, or the exception.  pd.read_hdf
\* returns plain DataFrames; the FITS branch wraps the tables in cls.
Read(file, filename) ==
    LET kind == FileKind(filename)
    IN  IF kind = "unrecognized"
        THEN [got |-> NothingRead, exc |-> "ValueError", msg |-> ExtensionError]
        ELSE IF ~file.exists
        THEN [got |-> NothingRead, exc |-> "FileNotFoundError", msg |-> "No such file"]
        ELSE IF kind = "hdf5"
        THEN [got |-> [Singles |-> [cls |-> "DataFrame", rows |-> file.singles,
                                    attrs |-> NoClassAttrs],
                       Binaries |-> [cls |-> "DataFrame", rows |-> file.binaries,
                                     attrs |-> NoClassAttrs]],
              exc |-> "none", msg |-> ""]
        ELSE [got |-> [Singles |-> [cls |-> "InitialCMCTable",
                                    rows |-> ResetIndex(file.singles),
                                    attrs |-> ClassAttrs],
                       Binaries |-> [cls |-> "InitialCMCTable",
                                     rows |-> ResetIndex(file.binaries),
                                     attrs |-> ClassAttrs]],
              exc |-> "none", msg |-> ""]

\* --------------------------------------------------------- constructors

\* InitialCMCSingles(id_idx, k, m, Reff, r, vr, vt, binind): the arrays
\* stacked into rows under the default RangeIndex.
InitialCMCSingles(id_idx, k, m, Reff, r, vr, vt, binind) ==
    InitialCMCTable([i \in 1..Len(id_idx) |->
        SinglesRow(i - 1, id_idx[i], k[i], m[i], Reff[i], r[i], vr[i], vt[i], binind[i])])

\* InitialCMCBinaries(index, id1, k1, m1, Reff1, id2, k2, m2, Reff2, a, e)
InitialCMCBinaries(index, id1, k1, m1, Reff1, id2, k2, m2, Reff2, a, e) ==
    InitialCMCTable([i \in 1..Len(index) |->
        BinariesRow(i - 1, index[i], id1[i], k1[i], m1[i], Reff1[i], id2[i], k2[i],
                    m2[i], Reff2[i], a[i], e[i])])

\* ----------------------------------------------------------- the bounds

\* Stars and binaries of a constructed cluster, and calls made on it.
MaxStars == 2
MaxBinaries == 1
MaxSteps == 3

\* The sample the constructors are given: n stars in ascending r with
\* masses in Msun, of which the first b are in a binary, and b binaries
\* whose ids follow the stars'.
SampleSingles(n, b) ==
    InitialCMCSingles([i \in 1..n |-> i],
                      [i \in 1..n |-> 1],
                      [i \in 1..n |-> Q(i, 1)],
                      [i \in 1..n |-> Rsun(Q(i, 1))],
                      [i \in 1..n |-> Q(i, 1)],
                      [i \in 1..n |-> IF i % 2 = 1 THEN Q(-i, 1) ELSE Q(i, 1)],
                      [i \in 1..n |-> Q(-i, 1)],
                      [i \in 1..n |-> IF i <= b THEN i ELSE 0])
SampleBinaries(n, b) ==
    InitialCMCBinaries([j \in 1..b |-> j],
                       [j \in 1..b |-> n + 2 * j - 1],
                       [j \in 1..b |-> 1],
                       [j \in 1..b |-> Q(1, 1)],
                       [j \in 1..b |-> Rsun(Q(1, 1))],
                       [j \in 1..b |-> n + 2 * j],
                       [j \in 1..b |-> 0],
                       [j \in 1..b |-> Q(1, 2)],
                       [j \in 1..b |-> Rsun(Q(1, 2))],
                       [j \in 1..b |-> Rsun(Q(10 * j, 1))],
                       [j \in 1..b |-> Q(1, 2)])

\* The attributes a caller sets on Singles between construction and the
\* calls (no method sets metallicity, virial_radius or tidal_radius).
\* record_mass: mass_of_cluster is set to the sum of the masses.
Untouched ==
    [metallicity |-> None, record_mass |-> FALSE, virial_radius |-> None,
     tidal_radius |-> None, central_bh |-> Zero, scale_with_central_bh |-> FALSE]
CallerSettings ==
    { Untouched,
      [Untouched EXCEPT !.metallicity = Q(1, 50), !.record_mass = TRUE,
                        !.virial_radius = Q(2, 1), !.tidal_radius = Q(5, 1)],
      [Untouched EXCEPT !.virial_radius = Q(1, 1), !.tidal_radius = Q(5, 1)],
      [Untouched EXCEPT !.metallicity = Q(1, 50), !.virial_radius = Q(1, 1),
                        !.tidal_radius = Q(5, 1), !.central_bh = Q(1, 1),
                        !.scale_with_central_bh = TRUE],
      [Untouched EXCEPT !.metallicity = Q(1, 50), !.record_mass = TRUE] }

WithSettings(S, p) ==
    [S EXCEPT !.metallicity = p.metallicity,
              !.mass_of_cluster = IF p.record_mass THEN SumSeq(Col(S.rows, "m")) ELSE None,
              !.virial_radius = p.virial_radius,
              !.tidal_radius = p.tidal_radius,
              !.central_bh = p.central_bh,
              !.scale_with_central_bh = p.scale_with_central_bh]

\* The inputs of the calls.
Filenames ==
    { <<"a">> \o ExtHdf5, <<"a">> \o ExtFits, <<"a">> \o ExtCsv,
      <<"a">> \o ExtH5 \o ExtCsv }
KwargsGiven ==
    { NoKwargs,
      [NoKwargs EXCEPT !.has = {"central_bh"}, !.central_bh = Q(3, 1)],
      [NoKwargs EXCEPT !.has = {"metallicity"}, !.metallicity = Q(1, 50)],
      [NoKwargs EXCEPT !.has = {"virial_radius"}, !.virial_radius = Q(2, 1)] }
VirialRadii == { Q(2, 1) }
BlackHolesGiven ==
    { [masses |-> Number(Q(1, 1)), radii |-> Number(Q(1, 2))],
      [masses |-> List(<<Q(1, 1), Q(2, 1)>>), radii |-> List(<<Q(3, 1), Q(1, 2)>>)],
      [masses |-> List(<<Q(-1, 1)>>), radii |-> List(<<Q(1, 2)>>)],
      [masses |-> Number(Q(1, 1)), radii |-> Number(Zero)],
      [masses |-> List(<<Q(1, 1), Q(2, 1)>>), radii |-> List(<<Q(1, 2)>>)],
      [masses |-> Text, radii |-> Number(Q(1, 2))],
      [masses |-> TextList(<<Q(1, 1)>>), radii |-> List(<<Q(1, 2), Q(3, 1)>>)],
      [masses |-> NoneArg, radii |-> NoneArg] }

\* ------------------------------------------------------ the state machine

VARIABLES
    Singles,     \* the Singles table and its attributes
    Binaries,    \* the Binaries table and its attributes
    disk,        \* the file under each filename
    readback,    \* the tables the last read returned
    ret,         \* the last call: its arguments and the exception it ended in
    scalings,    \* calls of ScaleToNBodyUnits that write has made on the pair
    steps        \* calls made

vars == <<Singles, Binaries, disk, readback, ret, scalings, steps>>

Call(op, exc, msg) ==
    [op |-> op, exc |-> exc, msg |-> msg, filename |-> <<>>, kwargs |-> NoKwargs,
     masses |-> NoneArg, radii |-> NoneArg, virial_radius |-> None,
     scale_with_central_bh |-> FALSE]

Init ==
    \E n \in 1..MaxStars, b \in 0..MaxBinaries, p \in CallerSettings :
        /\ b <= n
        /\ Singles = WithSettings(SampleSingles(n, b), p)
        /\ Binaries = SampleBinaries(n, b)
        /\ disk = [f \in Filenames |-> NoFile]
        /\ readback = NothingRead
        /\ ret = Call("", "none", "")
        /\ scalings = 0
        /\ steps = 0

DoScaleToNBodyUnits(virial_radius, scale_with_central_bh) ==
    /\ steps < MaxSteps
    /\ \E r \in {ScaleToNBodyUnits(Singles, Binaries, virial_radius, Zero,
                                scale_with_central_bh)} :
        /\ Singles' = r.S
        /\ Binaries' = r.B
        /\ ret' = [Call("ScaleToNBodyUnits", r.exc, r.msg) EXCEPT
                      !.virial_radius = virial_radius,
                      !.scale_with_central_bh = scale_with_central_bh]
        /\ steps' = steps + 1
        /\ UNCHANGED <<disk, readback, scalings>>

DoAddBlackHoles(masses, radii) ==
    /\ steps < MaxSteps
    /\ \E r \in {AddBlackHoles(Singles, Binaries, masses, radii)} :
        /\ Singles' = r.S
        /\ ret' = [Call("AddBlackHoles", r.exc, r.msg) EXCEPT
                      !.masses = masses, !.radii = radii]
        /\ steps' = steps + 1
        /\ UNCHANGED <<Binaries, disk, readback, scalings>>

DoWrite(filename, kwargs) ==
    /\ steps < MaxSteps
    /\ \E r \in {Write(Singles, Binaries, disk[filename], filename, kwargs)} :
        /\ Singles' = r.S
        /\ Binaries' = r.B
        /\ disk' = [disk EXCEPT ![filename] = r.file]
        /\ ret' = [Call("write", r.exc, r.msg) EXCEPT
                      !.filename = filename, !.kwargs = kwargs]
        /\ scalings' = IF r.ran THEN scalings + 1 ELSE scalings
        /\ steps' = steps + 1
        /\ UNCHANGED readback

DoRead(filename) ==
    /\ steps < MaxSteps
    /\ \E r \in {Read(disk[filename], filename)} :
        /\ readback' = r.got
        /\ ret' = [Call("read", r.exc, r.msg) EXCEPT !.filename = filename]
        /\ steps' = steps + 1
        /\ UNCHANGED <<Singles, Binaries, disk, scalings>>

Next ==
    \/ \E v \in VirialRadii, c \in BOOLEAN : DoScaleToNBodyUnits(v, c)
    \/ \E bh \in BlackHolesGiven : DoAddBlackHoles(bh.masses, bh.radii)
    \/ \E f \in Filenames, kw \in KwargsGiven : DoWrite(f, kw)
    \/ \E f \in Filenames : DoRead(f)

Spec == Init /\ [][Next]_vars

\* The sequences of write calls on a constructed pair.
NextWrite == \E f \in Filenames, kw \in KwargsGiven : DoWrite(f, kw)

WriteSpec == Init /\ [][NextWrite]_vars

\* ------------------------------------------------------------ the claims

TotalMass(S) == SumSeq(Col(S.rows, "m"))
SortedByR(rows) == \A i \in 1..(Len(rows) - 1) : RLe(rows[i].r, rows[i + 1].r)
IsBlackHole(row) == row.k = BH_KSTAR
RecognizedName(filename) == FileKind(filename) # "unrecognized"

\* C1: a write under a recognized filename with metallicity unset (neither
\* the Singles attribute nor the keyword gives one) ends in an error, leaves
\* every file as it was and leaves Singles and Binaries (rows and attributes)
\* exactly as they were.
C1_UnsetMetallicityAbortsUntouched ==
    [][(/\ ret'.op = "write" /\ RecognizedName(ret'.filename)
        /\ Pop(ret'.kwargs, "metallicity", Singles.metallicity) = None)
        => /\ ret'.exc # "none"
           /\ disk' = disk
           /\ Singles' = Singles
           /\ Binaries' = Binaries]_vars

\* C1's case: the first call on a cluster was a write that ended in the
\* metallicity error, no file exists, and the tables are scaled.
C1_Witness ==
    /\ steps = 1
    /\ ret.op = "write" /\ ret.exc = "ValueError" /\ ret.msg = MetallicityError
    /\ "metallicity" \notin ret.kwargs.has
    /\ \A f \in Filenames : ~disk[f].exists
    /\ Singles.scaled_to_nbody_units /\ Binaries.scaled_to_nbody_units
    /\ TotalMass(Singles) = One

\* C2: in every reachable state, if Singles.scaled_to_nbody_units is true
\* then the sum of column m of Singles is 1.
C2_ScaledTotalMassIsOne ==
    Singles.scaled_to_nbody_units => TotalMass(Singles) = One

\* C2's case: an AddBlackHoles call has run to its end on a scaled cluster
\* whose mass_of_cluster is recorded, and the masses no longer sum to 1.
C2_Witness ==
    /\ ret.op = "AddBlackHoles" /\ ret.exc = "none"
    /\ Singles.scaled_to_nbody_units
    /\ Singles.mass_of_cluster # None
    /\ RLt(One, TotalMass(Singles))

\* The table the scaling engine is given in C3: ascending r, positive masses,
\* positive distinct radii, kinetic energy not zero.
ScalablePre(S) ==
    /\ SortedByR(S.rows)
    /\ \A i \in 1..Len(S.rows) : RPos(S.rows[i].m) /\ RPos(S.rows[i].r)
    /\ \A i, j \in 1..Len(S.rows) : i # j => S.rows[i].r # S.rows[j].r
    /\ KineticEnergy(S.rows, S.vunit2) # Zero

\* The step is a ScaleToNBodyUnits call that ran to its end, or a write that
\* ran the scaling engine to its end.
ScaledByStep ==
    \/ ret'.op = "ScaleToNBodyUnits" /\ ret'.exc = "none"
    \/ ret'.op = "write" /\ ~Singles.scaled_to_nbody_units /\ Singles'.scaled_to_nbody_units

\* scale_with_central_bh as the scaling of the step was given it.
FlagOfStep ==
    IF ret'.op = "write"
    THEN Pop(ret'.kwargs, "scale_with_central_bh", Singles.scale_with_central_bh)
    ELSE ret'.scale_with_central_bh

\* C3: after the scaling engine has run on a Singles table sorted by
\* ascending r with positive masses, positive distinct radii and nonzero
\* kinetic energy, the kinetic energy recomputed from the scaled m, vr, vt is
\* 1/4 and the potential energy recomputed from the scaled m, r (with the
\* central black hole's term exactly when scale_with_central_bh was set) has
\* magnitude 1/2.
C3_ScaledEnergies ==
    [][(ScaledByStep /\ ScalablePre(Singles))
        => /\ KineticEnergy(Singles'.rows, Singles'.vunit2) = Q(1, 4)
           /\ PotentialEnergy(Singles'.rows, Singles'.central_bh, FlagOfStep) = Q(1, 2)]_vars

\* C3's case: a cluster that holds an injected black hole and a central
\* black hole has been scaled with scale_with_central_bh, and its energies
\* are 1/4 and 1/2.
C3_Witness ==
    /\ ret.op = "ScaleToNBodyUnits" /\ ret.exc = "none" /\ ret.scale_with_central_bh
    /\ Singles.central_bh # Zero
    /\ \E i \in 1..Len(Singles.rows) : IsBlackHole(Singles.rows[i])
    /\ KineticEnergy(Singles.rows, Singles.vunit2) = Q(1, 4)
    /\ PotentialEnergy(Singles.rows, Singles.central_bh, TRUE) = Q(1, 2)

\* The central black-hole mass write resolves (the keyword, else the Singles
\* attribute), in the units of the table on disk: divided by the total mass
\* when this write scaled the table.
ResolvedCentralBH ==
    IF Singles.scaled_to_nbody_units
    THEN Pop(ret'.kwargs, "central_bh", Singles.central_bh)
    ELSE RDiv(Pop(ret'.kwargs, "central_bh", Singles.central_bh), TotalMass(Singles))

\* C4: after a write that succeeded on N Singles rows and B Binaries rows,
\* the Singles block on disk has N + 2 rows, its first row has the smallest
\* positive double as r and the normalized central black-hole mass write
\* resolved as m, its last row has the outer sentinel as r, and NOBJ and
\* NBINARY are N and B.
C4_SentinelRowsAndCounts ==
    [][(ret'.op = "write" /\ ret'.exc = "none")
        => LET f == disk'[ret'.filename]
               N == Len(Singles'.rows)
           IN  /\ Len(f.singles) = N + 2
               /\ f.singles[1].r = DBL_MIN
               /\ f.singles[1].m = ResolvedCentralBH
               /\ f.singles[N + 2].r = OUTER
               /\ f.attrs.NOBJ = N
               /\ f.attrs.NBINARY = Len(Binaries'.rows)]_vars

\* C4's case: the first call on a cluster without a central black hole was
\* a successful write given central_bh = 3, and the first row on disk has
\* mass 0.
C4_Witness ==
    /\ steps = 1
    /\ ret.op = "write" /\ ret.exc = "none"
    /\ "central_bh" \in ret.kwargs.has /\ ret.kwargs.central_bh = Q(3, 1)
    /\ Singles.central_bh = Zero
    /\ disk[ret.filename].singles[1].r = DBL_MIN
    /\ disk[ret.filename].singles[1].m = Zero
    /\ disk[ret.filename].attrs.NOBJ = Len(Singles.rows)

\* The column values of a row, without its index label.
Values(row) == [c \in DOMAIN row \ {"lbl"} |-> row[c]]
SameValues(rows1, rows2) ==
    /\ Len(rows1) = Len(rows2)
    /\ \A i \in 1..Len(rows1) : Values(rows1[i]) = Values(rows2[i])

\* The table read returned carries the header attributes of the file.
CarriesHeader(table, attrs) ==
    /\ {"metallicity", "mass_of_cluster", "virial_radius", "tidal_radius",
        "scaled_to_nbody_units"} \subseteq DOMAIN table.attrs
    /\ table.attrs.metallicity = attrs.Z
    /\ table.attrs.mass_of_cluster = attrs.MCLUS
    /\ table.attrs.virial_radius = attrs.RVIR
    /\ table.attrs.tidal_radius = attrs.RTID
    /\ table.attrs.scaled_to_nbody_units

\* C5: a read that follows a successful write of the same file returns
\* tables with the row count and column values of the written blocks and
\* with the written header attributes (metallicity, mass_of_cluster,
\* virial_radius, tidal_radius, scaled state), and their rows without the
\* sentinels are the rows of Singles and Binaries in their scaled units.
C5_WriteReadRoundTrip ==
    [][(/\ ret.op = "write" /\ ret.exc = "none"
        /\ ret'.op = "read" /\ ret'.filename = ret.filename)
        => LET f == disk[ret.filename]
               got == readback'
               N == Len(Singles.rows)
           IN  /\ ret'.exc = "none"
               /\ SameValues(got.Singles.rows, f.singles)
               /\ SameValues(got.Binaries.rows, f.binaries)
               /\ CarriesHeader(got.Singles, f.attrs)
               /\ SameValues(SubSeq(got.Singles.rows, 2, N + 1),
                             [i \in 1..N |-> PlainSinglesRow(Singles.rows[i],
                                                             Singles.vunit2)])
               /\ SameValues(Tail(got.Binaries.rows), Binaries.rows)]_vars

\* C5's case: a file written with its metallicity in the header has been
\* read back, the rows came back, and the table returned has no metallicity.
C5_Witness ==
    /\ ret.op = "read" /\ ret.exc = "none"
    /\ disk[ret.filename].attrs.Z # None
    /\ SameValues(readback.Singles.rows, disk[ret.filename].singles)
    /\ \/ "metallicity" \notin DOMAIN readback.Singles.attrs
       \/ readback.Singles.attrs.metallicity = None

SupportedSuffix(filename) ==
    EndsWith(filename, ExtHdf5) \/ EndsWith(filename, ExtH5) \/ EndsWith(filename, ExtFits)

\* C6: write and read accept a filename only if it ends in .hdf5, .h5 or
\* .fits; with any other suffix both end in the 'extension not recognized'
\* error with the tables, the files and the tables last read untouched.
C6_KindBySuffixOnly ==
    [][(ret'.op \in {"write", "read"} /\ ~SupportedSuffix(ret'.filename))
        => /\ ret'.exc = "ValueError" /\ ret'.msg = ExtensionError
           /\ UNCHANGED <<Singles, Binaries, disk, readback>>]_vars

\* C6's case: a write under a name that ends in .csv ran to its end and the
\* file exists.
C6_Witness ==
    /\ ret.op = "write" /\ ret.exc = "none"
    /\ EndsWith(ret.filename, ExtCsv)
    /\ disk[ret.filename].exists

IdsOf(S, B) ==
    {S.rows[i].id : i \in 1..Len(S.rows)}
    \cup {B.rows[i].id1 : i \in 1..Len(B.rows)}
    \cup {B.rows[i].id2 : i \in 1..Len(B.rows)}
UniqueIds(S) ==
    \A i, j \in 1..Len(S.rows) : i # j => S.rows[i].id # S.rows[j].id
\* The rows a step put into Singles.
Injected ==
    {Singles'.rows[i] : i \in 1..Len(Singles'.rows)}
    \ {Singles.rows[i] : i \in 1..Len(Singles.rows)}

\* C7: each black hole an AddBlackHoles call injects has an id strictly
\* greater than every id that Singles.id, Binaries.id1 and Binaries.id2 held
\* before the call, and the Singles ids, unique before, stay pairwise
\* distinct.
C7_InjectedIdsAboveAll ==
    [][(ret'.op = "AddBlackHoles" /\ UniqueIds(Singles))
        => /\ \A row \in Injected : \A id \in IdsOf(Singles, Binaries) : row.id > id
           /\ UniqueIds(Singles')]_vars

\* C7's case: two calls have injected three black holes into a cluster that
\* has a binary, and the ids of Singles are pairwise distinct.
C7_Witness ==
    /\ ret.op = "AddBlackHoles"
    /\ Len(Binaries.rows) > 0
    /\ Cardinality({i \in 1..Len(Singles.rows) : IsBlackHole(Singles.rows[i])}) = 3
    /\ UniqueIds(Singles)
    /\ \A i \in 1..Len(Singles.rows) :
          IsBlackHole(Singles.rows[i]) =>
              \A j \in 1..Len(Binaries.rows) :
                  /\ Singles.rows[i].id > Binaries.rows[j].id1
                  /\ Singles.rows[i].id > Binaries.rows[j].id2

\* Matched positive masses and radii.
Numeric(x) == x.kind \in {"number", "list"} /\ ~x.text
Positive(x) == Numeric(x) /\ ~AnyNonPositive(x.vals)
Matched(masses, radii) ==
    Positive(masses) /\ Positive(radii) /\ Len(masses.vals) = Len(radii.vals)

\* C8: AddBlackHoles with k matched positive mass/radius pairs completes,
\* leaves Singles with k more rows and mass_of_cluster greater by the sum of
\* the masses.
C8_AddBlackHolesCompletes ==
    [][(ret'.op = "AddBlackHoles" /\ Matched(ret'.masses, ret'.radii))
        => /\ ret'.exc = "none"
           /\ Len(Singles'.rows) = Len(Singles.rows) + Len(ret'.masses.vals)
           /\ Singles.mass_of_cluster # None
           /\ Singles'.mass_of_cluster =
                  RAdd(Singles.mass_of_cluster, SumSeq(ret'.masses.vals))]_vars

\* C8's case: the first call on a cluster was AddBlackHoles with matched
\* positive pairs; it ended in TypeError with the black holes in Singles and
\* mass_of_cluster still unset.
C8_Witness ==
    /\ steps = 1
    /\ ret.op = "AddBlackHoles" /\ Matched(ret.masses, ret.radii)
    /\ ret.exc = "TypeError"
    /\ Singles.mass_of_cluster = None
    /\ \E i \in 1..Len(Singles.rows) : IsBlackHole(Singles.rows[i])

\* C9: AddBlackHoles with invalid masses or radii ends in an error with
\* Singles and its mass_of_cluster unchanged: ValueError for a non-positive
\* value, ValueError for mismatched lengths, TypeError for non-numeric input.
C9_InvalidBlackHolesRejected ==
    [][(ret'.op = "AddBlackHoles" /\ ~Matched(ret'.masses, ret'.radii))
        => /\ ret'.exc # "none"
           /\ Singles' = Singles
           /\ (~Numeric(ret'.masses) \/ ~Numeric(ret'.radii)) => ret'.exc = "TypeError"
           /\ (Numeric(ret'.masses) /\ Numeric(ret'.radii)) => ret'.exc = "ValueError"]_vars

\* C9's case: AddBlackHoles given non-numeric text as masses ended in
\* ValueError.
C9_Witness ==
    /\ ret.op = "AddBlackHoles"
    /\ ret.masses.text
    /\ ret.exc = "ValueError"
    /\ ret.msg = "could not convert string to float"

\* C10: Singles, sorted by ascending r when constructed, is sorted by
\* ascending r after every sequence of ScaleToNBodyUnits, AddBlackHoles and
\* write calls.
C10_SortedByR == SortedByR(Singles.rows)

\* C10's case: a cluster into which a black hole was injected below the
\* innermost star has been scaled and written, and the black hole is its
\* first row.
C10_Witness ==
    /\ ret.op = "write" /\ ret.exc = "none"
    /\ Singles.scaled_to_nbody_units
    /\ Len(Singles.rows) > 1
    /\ IsBlackHole(Singles.rows[1])
    /\ ~IsBlackHole(Singles.rows[Len(Singles.rows)])
    /\ SortedByR(Singles.rows)

\* C11: across a sequence of write calls on one pair, failed calls and their
\* retries included, write has called the scaling engine at most once, it
\* calls it only while scaled_to_nbody_units is false, and a write on a
\* pair already scaled leaves every column value, central_bh and
\* mass_of_cluster as they were.
C11_WriteRescalesAtMostOnce ==
    [][ret'.op = "write"
        => /\ scalings' <= 1
           /\ scalings' # scalings => ~Singles.scaled_to_nbody_units
           /\ Singles.scaled_to_nbody_units
                 => /\ Singles'.rows = Singles.rows
                    /\ Singles'.vunit2 = Singles.vunit2
                    /\ Binaries'.rows = Binaries.rows
                    /\ Singles'.central_bh = Singles.central_bh
                    /\ Singles'.mass_of_cluster = Singles.mass_of_cluster]_vars

\* C11's case: a write failed in the scaling engine for want of a virial
\* radius, the retry was given one and saved the file, and the engine has
\* run twice on the pair.
C11_Witness ==
    /\ steps = 2
    /\ ret.op = "write" /\ ret.exc = "none"
    /\ "virial_radius" \in ret.kwargs.has
    /\ Singles.virial_radius = None
    /\ disk[ret.filename].exists
    /\ Singles.scaled_to_nbody_units
    /\ scalings = 2

====
